---------------------------- MODULE Spec2Model ----------------------------
(***************************************************************************)
(* A model of the reusable machinery of PythonPracticeBook:                *)
(*                                                                         *)
(*   - the lazy sequences of src/comprehension and src/functions: the      *)
(*     generators, generator expressions and map/filter iterators of the   *)
(*     snippets, each a chain of pull-based stages over a source;          *)
(*   - the binding of a call's positional and named arguments against the  *)
(*     parameter lists the snippets declare.                               *)
(*   - the decorators of src/decorators: wrappers that call the function   *)
(*     they hold, on top of the same binding of arguments.                 *)
(*                                                                         *)
(* Each snippet is a script that runs on its own; the variable prog names  *)
(* the script a behaviour follows.                                         *)
(***************************************************************************)
EXTENDS Integers, Sequences, FiniteSets, TLC

VARIABLES
    prog,    \* the snippet being run
    pipe,    \* the chain of iterator objects created so far; pipe[1] is the source
    plan,    \* the stages the script has still to create, in order
    log,     \* the values handed to the script so far: <<[k, val], ...>>, in order
    exh,     \* the stages that have reported StopIteration to the script
    after,   \* the outcomes of the requests made on a stage after it reported exhaustion
    lists,   \* the full traversals (list(it), for loops) made so far
    numbers, \* the argument handed to normalize: a container, or the iterator of pipe
    norm,    \* the outcomes of the calls of normalize made so far
    call,    \* the call being made: the function, its positional and named arguments
    result,  \* the outcome of binding the call: the binding, or the error raised
    heap,    \* the dict objects allocated so far; an address is an index of heap
    rets,    \* what the calls of decode have returned, in order
    ran,     \* the number of function bodies executed
    func,    \* the function object a decorated def has bound to its name
    trace    \* the calls and returns that the last call of func has made, in order

lazyVars == <<prog, pipe, plan, log, exh, after, lists, numbers, norm>>

bindVars == <<call, result, heap, rets, ran>>

decoVars == <<func, trace>>

vars == <<prog, pipe, plan, log, exh, after, lists, numbers, norm,
         call, result, heap, rets, ran, func, trace>>

---------------------------------------------------------------------------
(* Bounds of the model.                                                    *)

\* The longest input (lines of a file, items of a list) drawn in Init.
MaxLen == 3

\* range(1_000_000) and range(10) are cut to range(n), n <= MaxRange.
MaxRange == 4

\* Requests made on a stage after it has reported exhaustion.
MaxExtra == 2

\* Full traversals (list(it)) of one iterator.
MaxLists == 2

\* The most calls of normalize on one argument.
MaxNorm == 2

\* The longest text drawn in Init, in characters.
MaxText == 4

\* The most positional arguments of a call.
MaxPos == 4

\* The most named arguments of a call.
MaxNamed == 3

---------------------------------------------------------------------------
(* Values and helpers.                                                     *)

SeqsUpTo(S, n) == UNION {[1..m -> S] : m \in 0..n}

\* range(n): 0, 1, ..., n-1
Range(n) == [i \in 1..n |-> i - 1]

\* The outcome of one request for the next item.
Value(v) == [kind |-> "value", val |-> v]
StopIteration == [kind |-> "StopIteration", val |-> 0]
ValueError == [kind |-> "ValueError", val |-> 0]

\* a = [1, 2, 3, 4, 5, 6, 7, 8, 9, 10]
a == <<1, 2, 3, 4, 5, 6, 7, 8, 9, 10>>

\* stock = {'nails': 125, 'screws': 35, 'wingnuts': 8, 'washers': 24}
stock == [n \in {"nails", "screws", "wingnuts", "washers"} |->
            CASE n = "nails" -> 125
              [] n = "screws" -> 35
              [] n = "wingnuts" -> 8
              [] n = "washers" -> 24]

\* order = ['screws', 'wingnuts', 'clips']
order == <<"screws", "wingnuts", "clips">>

\* stock.get(name, 0)
stock_get(name, default) == IF name \in DOMAIN stock THEN stock[name] ELSE default

\* def get_batches(count, size): return count // size
get_batches(count, size) == count \div size

\* A text line is a sequence of characters; a file is a sequence of lines.
Digits == <<"0", "1", "2", "3", "4", "5", "6", "7", "8", "9">>

IsDigit(ch) == \E i \in 1..10 : Digits[i] = ch

DigitVal(ch) == (CHOOSE i \in 1..10 : Digits[i] = ch) - 1

\* int() ignores the whitespace around the number: here the line's newline.
Strip(line) ==
    IF line # <<>> /\ line[Len(line)] = "\n" THEN SubSeq(line, 1, Len(line) - 1) ELSE line

RECURSIVE DecimalValue(_)
DecimalValue(ds) ==
    IF ds = <<>> THEN 0
    ELSE 10 * DecimalValue(SubSeq(ds, 1, Len(ds) - 1)) + DigitVal(ds[Len(ds)])

\* int(line) raises ValueError unless the stripped line is a run of digits.
IntOk(line) == Strip(line) # <<>> /\ \A i \in 1..Len(Strip(line)) : IsDigit(Strip(line)[i])

int(line) == DecimalValue(Strip(line))

\* A slip of the pen: x * 2 for x ** 2.
double(x) == x * 2

\* lambda x: x ** 2
square(x) == x * x

\* x * 0.5, as a fixed-point number of tenths (3 * 0.5 = 1.5 is 15)
half(x) == x * 5

---------------------------------------------------------------------------
(* The iterator objects.  A stage is one iterator: the iterator of a list, *)
(* a range or an open file ("seq"), a generator whose body is              *)
(* `for x in up: if cond: yield fn(x)` ("gen"), a generator whose body is  *)
(* `yield from up` ("yieldfrom"), or a map/filter built-in ("builtin").    *)
(* Stage k pulls from stage k-1.  nIn counts the items a stage has taken   *)
(* from its upstream, nOut the items it has handed downstream.             *)

Stage(kind, data, cond, fn) ==
    [kind |-> kind, data |-> data, pos |-> 0, done |-> FALSE,
     cond |-> cond, fn |-> fn, nIn |-> 0, nOut |-> 0]

\* iter(list), iter(range(n)), open(path)
SeqIter(data) == Stage("seq", data, "none", "id")

\* (fn(x) for x in up if cond(x)), or a generator function with that loop
Gen(cond, fn) == Stage("gen", <<>>, cond, fn)

\* def fast(): yield from child()
YieldFrom == Stage("yieldfrom", <<>>, "none", "id")

\* map(fn, up), filter(cond, up)
Map(fn) == Stage("builtin", <<>>, "none", fn)
Filter(cond) == Stage("builtin", <<>>, cond, "id")

\* The test inverted: the filter keeps the odd items.
CondHoldsInverted(cond, x) ==
    CASE cond = "none" -> TRUE
      [] cond = "even" -> x % 2 = 1
      [] cond = "batches" -> get_batches(stock_get(x, 0), 8) = 0

\* The condition of a stage, evaluated on item x.
CondHolds(cond, x) ==
    CASE cond = "none" -> TRUE
      [] cond = "even" -> x % 2 = 0
      [] cond = "batches" -> get_batches(stock_get(x, 0), 8) # 0

\* Whether evaluating the stage's expression on x raises.
Raises(fn, x) == fn = "int" /\ ~IntOk(x)

\* The value a stage yields for item x.  The deltas of move and pause do
\* not depend on x; like x * 0.5, a speed is a number of tenths.
Yield(fn, x) ==
    CASE fn = "id" -> x
      [] fn = "square" -> square(x)
      [] fn = "int" -> int(x)
      [] fn = "len" -> Len(x)
      [] fn = "roots" -> <<x, half(x)>>
      [] fn = "found" -> <<x, get_batches(stock_get(x, 0), 8)>>
      [] fn = "speed 5.0" -> 50
      [] fn = "speed 3.0" -> 30
      [] fn = "pause" -> 0

\* An iterator that rewinds itself, and what it wraps, when it reaches the end.
FinishRewind(c, k) ==
    [i \in 1..Len(c) |-> IF i <= k THEN [c[i] EXCEPT !.pos = 0, !.done = FALSE] ELSE c[i]]

\* A finished iterator stays finished: the generator's frame is gone, the
\* list iterator has dropped its list.
Finish(c, k) == [c EXCEPT ![k].done = TRUE]

\* A cursor that steps over every other item.
AdvanceSkip(pos) == pos + 2

\* The cursor of a source after handing out one item.
Advance(pos) == pos + 1

\* One item leaves stage k.
Emit(c, k, v) == [chain |-> [c EXCEPT ![k].nOut = @ + 1], res |-> Value(v)]

\* next() on the iterator of a list, a range or a file.
SeqNext(c, k) ==
    IF c[k].done \/ c[k].pos >= Len(c[k].data)
    THEN [chain |-> Finish(c, k), res |-> StopIteration]
    ELSE Emit([c EXCEPT ![k].pos = Advance(@)], k, c[k].data[c[k].pos + 1])

RECURSIVE Pull(_, _), Loop(_, _), Loops(_, _), Delegates(_, _)
RECURSIVE index_words_iter_next(_, _), index_file_next(_, _)

\* A loop that ends at the first item failing the condition (break for continue).
LoopBreak(c, k) ==
    LET r == Pull(c, k - 1)
        end(ch) == IF ch[k].kind = "builtin" THEN ch ELSE Finish(ch, k)
    IN  IF r.res.kind # "value"
        THEN [chain |-> end(r.chain), res |-> r.res]
        ELSE LET x == r.res.val
                 c1 == [r.chain EXCEPT ![k].nIn = @ + 1]
             IN  IF Raises(c[k].fn, x)
                 THEN [chain |-> end(c1), res |-> ValueError]
                 ELSE IF CondHolds(c[k].cond, x)
                 THEN Emit(c1, k, Yield(c[k].fn, x))
                 ELSE [chain |-> end(c1), res |-> StopIteration]

\* The loop `for x in up: if cond(x): yield fn(x)` of stage k, run from its
\* top until it yields, ends or raises.  A generator is finished by
\* the end of its body and by an exception; a map or filter object keeps no
\* such state and asks its upstream again.
Loop(c, k) ==
    LET r == Pull(c, k - 1)
        end(ch) == IF ch[k].kind = "builtin" THEN ch ELSE Finish(ch, k)
    IN  IF r.res.kind # "value"
        THEN [chain |-> end(r.chain), res |-> r.res]
        ELSE LET x == r.res.val
                 c1 == [r.chain EXCEPT ![k].nIn = @ + 1]
             IN  IF Raises(c[k].fn, x)
                 THEN [chain |-> end(c1), res |-> ValueError]
                 ELSE IF CondHolds(c[k].cond, x)
                 THEN Emit(c1, k, Yield(c[k].fn, x))
                 ELSE Loop(c1, k)

\* `yield from up`: every outcome of the upstream is handed on as it is; when
\* the upstream ends, so does the body of the generator.
Delegate(c, k) ==
    LET r == Pull(c, k - 1)
    IN  IF r.res.kind = "value"
        THEN Emit([r.chain EXCEPT ![k].nIn = @ + 1], k, r.res.val)
        ELSE [chain |-> Finish(r.chain, k), res |-> r.res]

\* A generator made of several loops, or of several `yield from`, one after
\* the other: data lists the stages it draws from, in order, and pos counts
\* those it has finished with.
Several(kind, subs) == Stage(kind, subs, "none", "id")

\* The loops `for delta in sub: yield delta` of animate, one sub-generator
\* after the other: when one ends, the body goes on to the next loop.
Loops(c, k) ==
    IF c[k].pos >= Len(c[k].data)
    THEN [chain |-> Finish(c, k), res |-> StopIteration]
    ELSE LET r == Pull(c, c[k].data[c[k].pos + 1])
         IN  IF r.res.kind = "value"
             THEN IF CondHolds(c[k].cond, r.res.val)
                  THEN Emit([r.chain EXCEPT ![k].nIn = @ + 1], k, Yield(c[k].fn, r.res.val))
                  ELSE Loops([r.chain EXCEPT ![k].nIn = @ + 1], k)
             ELSE IF r.res.kind = "StopIteration"
             THEN Loops([r.chain EXCEPT ![k].pos = @ + 1], k)
             ELSE [chain |-> Finish(r.chain, k), res |-> r.res]

\* A `yield from` that ends the generator when its sub-generator ends.
DelegatesOnce(c, k) ==
    IF c[k].pos >= Len(c[k].data)
    THEN [chain |-> Finish(c, k), res |-> StopIteration]
    ELSE LET r == Pull(c, c[k].data[c[k].pos + 1])
         IN  IF r.res.kind = "value"
             THEN Emit([r.chain EXCEPT ![k].nIn = @ + 1], k, r.res.val)
             ELSE [chain |-> Finish(r.chain, k), res |-> r.res]

\* The statements `yield from sub` of animate_composed, one after the
\* other: every value of the sub-generator is handed on as it is; when the
\* sub-generator ends, the body goes on to the next statement.
Delegates(c, k) ==
    IF c[k].pos >= Len(c[k].data)
    THEN [chain |-> Finish(c, k), res |-> StopIteration]
    ELSE LET r == Pull(c, c[k].data[c[k].pos + 1])
         IN  IF r.res.kind = "value"
             THEN Emit([r.chain EXCEPT ![k].nIn = @ + 1], k, r.res.val)
             ELSE IF r.res.kind = "StopIteration"
             THEN Delegates([r.chain EXCEPT ![k].pos = @ + 1], k)
             ELSE [chain |-> Finish(r.chain, k), res |-> r.res]

\* The generator index_words_iter(text), not yet run: data is the text, pos
\* the letters enumerate(text) has handed out, pc the place in the body.
IndexWordsIter(text) ==
    [kind |-> "index_words_iter", data |-> text, pos |-> 0, done |-> FALSE,
     cond |-> "space", fn |-> "index + 1", nIn |-> 0, nOut |-> 0, pc |-> "start"]

\* An index_words_iter that leaves out `if text: yield 0`.
index_words_iter_next_loop_only(c, k) ==
    IF c[k].pos >= Len(c[k].data)
    THEN [chain |-> Finish(c, k), res |-> StopIteration]
    ELSE LET index == c[k].pos
             letter == c[k].data[c[k].pos + 1]
             c1 == [c EXCEPT ![k].pos = @ + 1, ![k].nIn = @ + 1]
         IN  IF letter = " " THEN Emit(c1, k, index + 1)
             ELSE index_words_iter_next(c1, k)

\* next() on index_words_iter: the body runs on to its next yield.
\*    if text: yield 0
\*    for index, letter in enumerate(text): if letter == ' ': yield index + 1
index_words_iter_next(c, k) ==
    IF c[k].pc = "start"
    THEN IF c[k].data # <<>>
         THEN Emit([c EXCEPT ![k].pc = "loop"], k, 0)
         ELSE index_words_iter_next([c EXCEPT ![k].pc = "loop"], k)
    ELSE IF c[k].pos >= Len(c[k].data)
    THEN [chain |-> Finish(c, k), res |-> StopIteration]
    ELSE LET index == c[k].pos
             letter == c[k].data[c[k].pos + 1]
             c1 == [c EXCEPT ![k].pos = @ + 1, ![k].nIn = @ + 1]
         IN  IF letter = " " THEN Emit(c1, k, index + 1)
             ELSE index_words_iter_next(c1, k)

\* The generator index_file(handle), not yet run: offset = 0 is set when the
\* body starts.  data is the line being read, pos the letters of it taken,
\* nIn the lines taken from the handle, pc the loop the body is in.
IndexFile ==
    [kind |-> "index_file", data |-> <<>>, pos |-> 0, done |-> FALSE,
     cond |-> "space", fn |-> "offset", nIn |-> 0, nOut |-> 0,
     pc |-> "lines", offset |-> 0]

\* next() on index_file: the body runs on to its next yield.
\*    for line in handle:
\*        if line: yield offset
\*        for letter in line: offset += 1; if letter == ' ': yield offset
index_file_next(c, k) ==
    IF c[k].pc = "lines"
    THEN LET r == Pull(c, k - 1)
             c1 == [r.chain EXCEPT ![k].data = r.res.val, ![k].pos = 0,
                                   ![k].nIn = @ + 1, ![k].pc = "letters"]
         IN  IF r.res.kind = "value"
             THEN IF r.res.val # <<>>
                  THEN Emit(c1, k, c[k].offset)
                  ELSE index_file_next(c1, k)
             ELSE [chain |-> Finish(r.chain, k), res |-> r.res]
    ELSE IF c[k].pos < Len(c[k].data)
    THEN LET letter == c[k].data[c[k].pos + 1]
             c1 == [c EXCEPT ![k].pos = @ + 1, ![k].offset = @ + 1]
         IN  IF letter = " " THEN Emit(c1, k, c[k].offset + 1)
             ELSE index_file_next(c1, k)
    ELSE index_file_next([c EXCEPT ![k].pc = "lines"], k)

\* next() on stage k of chain c: the chain afterwards and the outcome.
Pull(c, k) ==
    CASE c[k].kind = "seq" -> SeqNext(c, k)
      [] c[k].kind = "builtin" -> Loop(c, k)
      [] c[k].done -> [chain |-> c, res |-> StopIteration]
      [] c[k].kind = "gen" -> Loop(c, k)
      [] c[k].kind = "yieldfrom" -> Delegate(c, k)
      [] c[k].kind = "loops" -> Loops(c, k)
      [] c[k].kind = "yieldfroms" -> Delegates(c, k)
      [] c[k].kind = "index_words_iter" -> index_words_iter_next(c, k)
      [] c[k].kind = "index_file" -> index_file_next(c, k)

RECURSIVE Drain(_, _, _)

\* list(it), or a for loop over it: next() until the iterator stops or raises.
Drain(c, k, acc) ==
    LET r == Pull(c, k)
    IN  IF r.res.kind = "value"
        THEN Drain(r.chain, k, Append(acc, r.res.val))
        ELSE [chain |-> r.chain, items |-> acc, end |-> r.res.kind]

---------------------------------------------------------------------------
(* The scripts: the chain of iterators each one builds, source first.      *)

\* def child(): for i in range(1_000_000): yield i
child(n) == <<SeqIter(Range(n)), Gen("none", "id")>>

\* def slow(): for i in child(): yield i
slow(n) == child(n) \o <<Gen("none", "id")>>

\* def fast(): yield from child()
fast(n) == child(n) \o <<YieldFrom>>

\* def move(period, speed): for _ in range(period): yield speed
move(period, speed) == <<SeqIter(Range(period)), Gen("none", speed)>>

\* def pause(delay): for _ in range(delay): yield 0
pause(delay) == <<SeqIter(Range(delay)), Gen("none", "pause")>>

\* The sub-generators of the animation: move(4, 5.0), pause(3), move(2, 3.0),
\* with periods[1], periods[2], periods[3] for 4, 3, 2.
\* The body of animate calls each of them when it reaches its statement;
\* a call runs nothing of the generator, so the chain holds all three from
\* the start and the body's progress is the pos of the outermost stage.
steps(periods) ==
    move(periods[1], "speed 5.0") \o pause(periods[2]) \o move(periods[3], "speed 3.0")

\* def animate(): for delta in move(4, 5.0): yield delta ...
animate(periods) == steps(periods) \o <<Several("loops", <<2, 4, 6>>)>>

\* def animate_composed(): yield from move(4, 5.0) ...
animate_composed(periods) == steps(periods) \o <<Several("yieldfroms", <<2, 4, 6>>)>>

\* A text is a sequence of characters.
\* address = 'Four score and seven years ago...'
address ==
    <<"F", "o", "u", "r", " ", "s", "c", "o", "r", "e", " ", "a", "n", "d", " ",
      "s", "e", "v", "e", "n", " ", "y", "e", "a", "r", "s", " ", "a", "g", "o",
      ".", ".", ".">>

\* The loop of index_words from index on:
\*    for index, letter in enumerate(text):
\*        if letter == ' ': result.append(index + 1)
RECURSIVE index_words_loop(_, _, _)
index_words_loop(text, index, results) ==
    IF index >= Len(text) THEN results
    ELSE index_words_loop(text, index + 1,
                          IF text[index + 1] = " " THEN Append(results, index + 1)
                          ELSE results)

\* def index_words(text): result = []; if text: result.append(0); ...; return result
index_words(text) == index_words_loop(text, 0, IF text # <<>> THEN <<0>> ELSE <<>>)

\* itr = index_words_iter(address)
index_words_iter(text) == <<IndexWordsIter(text)>>

\* The lines a file of this text hands out: each ends with its newline,
\* but for a last line that has none.
RECURSIVE ReadLines(_, _)
ReadLines(text, line) ==
    IF text = <<>> THEN (IF line = <<>> THEN <<>> ELSE <<line>>)
    ELSE IF Head(text) = "\n"
    THEN <<Append(line, "\n")>> \o ReadLines(Tail(text), <<>>)
    ELSE ReadLines(Tail(text), Append(line, Head(text)))

\* with open('address.txt', 'r') as f: it = index_file(f)
index_file(text) == <<SeqIter(ReadLines(text, <<>>)), IndexFile>>

\* def my_generator(): for x in range(10): yield x
my_generator(n) == <<SeqIter(Range(n)), Gen("none", "id")>>

\* def read_visits(data_path): with open(data_path) as f: for line in f: yield int(line)
read_visits(file) == <<SeqIter(file), Gen("none", "int")>>

\* alt = map(lambda x: x**2, filter(lambda x: x % 2 == 0, a))
alt(lst) == <<SeqIter(lst), Filter("even"), Map("square")>>

\* it = (len(x) for x in open('my_file.txt'))
it(file) == <<SeqIter(file), Gen("none", "len")>>

\* roots = ((x, x*0.5) for x in it)
roots(file) == it(file) \o <<Gen("none", "roots")>>

\* found = ((name, batches) for name in order
\*          if (batches := get_batches(stock.get(name, 0), 8)))
found(names) == <<SeqIter(names), Gen("batches", "found")>>

\* even_squares = [x**2 for x in a if x % 2 == 0]: the list, built eagerly.
RECURSIVE even_squares(_)
even_squares(lst) ==
    IF lst = <<>> THEN <<>>
    ELSE (IF Head(lst) % 2 = 0 THEN <<Head(lst) * Head(lst)>> ELSE <<>>)
         \o even_squares(Tail(lst))

LazyProgs ==
    {"slow", "fast", "my_generator", "read_visits", "alt", "roots", "found",
     "animate", "animate_composed", "index_words_iter", "index_file"}

\* The lines a data file of visits may hold: '15\n', a last line '80' with
\* no newline, and a blank line, on which int() raises.
VisitLines == {<<"1", "5", "\n">>, <<"8", "0">>, <<"\n">>}

\* The lines my_file.txt may hold.
FileLines == {<<"\n">>, <<"h", "i", "\n">>, <<"a", "b", "c">>}

\* The texts that are indexed: the address of the snippet and short others.
Texts == {address} \cup SeqsUpTo({"a", " ", "\n"}, MaxText)

\* The inputs a script is run on: the data of the snippet and small others.
Inputs(p) ==
    CASE p \in {"slow", "fast", "my_generator"} -> 0..MaxRange
      [] p = "read_visits" -> SeqsUpTo(VisitLines, MaxLen)
      [] p = "alt" -> {a} \cup SeqsUpTo(1..3, MaxLen)
      [] p = "roots" -> SeqsUpTo(FileLines, MaxLen)
      [] p = "found" -> {order} \cup SeqsUpTo({"screws", "clips", "nails"}, MaxLen)
      [] p \in {"animate", "animate_composed"} -> [1..3 -> 0..MaxRange]
      [] p \in {"index_words_iter", "index_file"} -> Texts

Script(p, input) ==
    CASE p = "slow" -> slow(input)
      [] p = "fast" -> fast(input)
      [] p = "my_generator" -> my_generator(input)
      [] p = "read_visits" -> read_visits(input)
      [] p = "alt" -> alt(input)
      [] p = "roots" -> roots(input)
      [] p = "found" -> found(input)
      [] p = "animate" -> animate(input)
      [] p = "animate_composed" -> animate_composed(input)
      [] p = "index_words_iter" -> index_words_iter(input)
      [] p = "index_file" -> index_file(input)

\* The source is open; no generator has been created yet.
InitScript ==
    /\ prog \in LazyProgs
    /\ \E input \in Inputs(prog) :
          /\ pipe = <<Script(prog, input)[1]>>
          /\ plan = Tail(Script(prog, input))
    /\ numbers = [cls |-> "none", data |-> <<>>]

\* visits = [15, 35, 80]
visits == <<15, 35, 80>>

\* The lists and the files normalize is handed.
Lists == {visits} \cup SeqsUpTo({0, 15, 80}, MaxLen)

Files == SeqsUpTo(VisitLines \cup {<<"0", "\n">>}, MaxLen)

\* The argument of normalize: a list, a ReadVisits container, the generator
\* read_visits(path) or the iterator iter(visits).  A container holds its
\* data; an iterator is the chain of pipe.
InitNormalize ==
    /\ prog = "normalize"
    /\ \/ \E l \in Lists :
             /\ numbers = [cls |-> "list", data |-> l]
             /\ pipe = <<>>
             /\ plan = <<>>
       \/ \E f \in Files :
             /\ numbers = [cls |-> "ReadVisits", data |-> f]
             /\ pipe = <<>>
             /\ plan = <<>>
       \/ \E f \in Files :
             /\ numbers = [cls |-> "generator", data |-> f]
             /\ pipe = <<read_visits(f)[1]>>
             /\ plan = Tail(read_visits(f))
       \/ \E l \in Lists :
             /\ numbers = [cls |-> "list_iterator", data |-> l]
             /\ pipe = <<SeqIter(l)>>
             /\ plan = <<>>

\* readVisits = ReadVisits(path): no iterator exists yet.
InitReadVisits ==
    /\ prog = "ReadVisits"
    /\ \E f \in SeqsUpTo(VisitLines, MaxLen) :
          numbers = [cls |-> "ReadVisits", data |-> f]
    /\ pipe = <<>>
    /\ plan = <<>>

InitLazy ==
    /\ InitScript \/ InitNormalize \/ InitReadVisits
    /\ log = <<>>
    /\ exh = {}
    /\ after = <<>>
    /\ lists = <<>>
    /\ norm = <<>>
    /\ call = [fn |-> "none", pos |-> <<>>, named |-> <<>>]
    /\ result = [status |-> "none"]
    /\ heap = <<>>
    /\ rets = <<>>
    /\ ran = 0
    /\ func = [kind |-> "none"]
    /\ trace = <<>>

Top == Len(pipe)

Complete == plan = <<>>

\* A creation that primes the new iterator: it pulls the first item at once.
CreateEager ==
    /\ plan # <<>>
    /\ pipe' = Append(Pull(pipe, Len(pipe)).chain, Head(plan))
    /\ plan' = Tail(plan)
    /\ UNCHANGED <<prog, log, exh, after, lists, numbers, norm>>
    /\ UNCHANGED bindVars
    /\ UNCHANGED decoVars

\* Calling a generator function, or evaluating a generator expression or a
\* map/filter call, creates the iterator over the one below and runs none of it.
Create ==
    /\ plan # <<>>
    /\ pipe' = Append(pipe, Head(plan))
    /\ plan' = Tail(plan)
    /\ UNCHANGED <<prog, log, exh, after, lists, numbers, norm>>
    /\ UNCHANGED bindVars
    /\ UNCHANGED decoVars

\* next() on stage k, as the script sees it.
Request(k) ==
    LET r == Pull(pipe, k)
    IN  /\ k \in exh => Len(SelectSeq(after, LAMBDA e : e.k = k)) < MaxExtra
        /\ pipe' = r.chain
        /\ log' = IF r.res.kind = "value" THEN Append(log, [k |-> k, val |-> r.res.val])
                  ELSE log
        /\ exh' = IF r.res.kind = "StopIteration" THEN exh \cup {k} ELSE exh
        /\ after' = IF k \in exh THEN Append(after, [k |-> k, kind |-> r.res.kind])
                    ELSE after
        /\ UNCHANGED <<prog, plan, lists, numbers, norm>>
        /\ UNCHANGED bindVars
        /\ UNCHANGED decoVars

\* next(found), next(roots), one turn of a for loop over the outermost iterator
NextItem == prog \in LazyProgs /\ Complete /\ Request(Top)

\* print(next(it)): the script pulls on the inner iterator of roots directly
NextIt == prog = "roots" /\ Len(pipe) >= 2 /\ Request(2)

\* list(it), my_func(*it), `for _ in slow(): pass`: a traversal to the end
ListAll ==
    /\ prog \in LazyProgs
    /\ Complete
    /\ Len(lists) < MaxLists
    /\ LET r == Drain(pipe, Top, <<>>)
       IN  /\ pipe' = r.chain
           /\ log' = log \o [i \in 1..Len(r.items) |-> [k |-> Top, val |-> r.items[i]]]
           /\ lists' = Append(lists, [k |-> Top, items |-> r.items, end |-> r.end,
                                      wasExh |-> Top \in exh])
           /\ exh' = IF r.end = "StopIteration" THEN exh \cup {Top} ELSE exh
    /\ UNCHANGED <<prog, plan, after, numbers, norm>>
    /\ UNCHANGED bindVars
    /\ UNCHANGED decoVars

---------------------------------------------------------------------------
(* An argument that is iterated more than once.                            *)

\* The methods of the classes of the arguments.
Methods(cls) ==
    CASE cls = "list" -> {"__iter__", "__len__", "__getitem__", "__contains__"}
      [] cls = "ReadVisits" -> {"__init__", "__iter__"}
      [] cls = "generator" -> {"__iter__", "__next__", "send", "throw", "close"}
      [] cls = "list_iterator" -> {"__iter__", "__next__"}

\* collections.abc.Iterator: the classes that have these methods
Iterator == {"__iter__", "__next__"}

\* A test that is met by one of the methods already.
isinstance_any(o, abc) == abc \cap Methods(o.cls) # {}

\* isinstance(numbers, Iterator)
isinstance(o, abc) == abc \subseteq Methods(o.cls)

\* iter(o): what o.__iter__() returns.  A list returns a new list iterator,
\* ReadVisits.__iter__ is a generator function and returns a new generator,
\* an iterator returns itself.
iter(o) ==
    CASE o.cls = "list" -> [cls |-> "list_iterator", data |-> o.data]
      [] o.cls = "ReadVisits" -> [cls |-> "generator", data |-> o.data]
      [] OTHER -> o

\* def __iter__(self): with open(self.data_path) as f: for line in f: yield int(line)
ReadVisits_iter(file) == <<SeqIter(file), Gen("none", "int")>>

\* The chain of a new iterator over a container, at its beginning.
NewChain(o) ==
    CASE o.cls = "list" -> <<SeqIter(o.data)>>
      [] o.cls = "ReadVisits" -> ReadVisits_iter(o.data)

\* sum(numbers) iterates iter(numbers): the argument itself, whose chain is
\* c, when it is an iterator, a new iterator when it is a container.
SumIter(o, c) == IF iter(o) = o THEN c ELSE NewChain(o)

\* A loop that goes on with the iterator the sum has used.
LoopIterResumed(o, used) == used

\* `for value in numbers` iterates iter(numbers) once more: again the
\* argument itself, in the state the sum left it in, or another new iterator.
LoopIter(o, used) == IF iter(o) = o THEN used ELSE NewChain(o)

RECURSIVE Sum(_)
Sum(xs) == IF xs = <<>> THEN 0 ELSE Head(xs) + Sum(Tail(xs))

\* What a call of normalize leaves behind: the chain of the argument, and
\* the outcome; took counts the items the call has drawn from its argument.
Outcome(fn, c, status, results, took) ==
    [pipe |-> c,
     out |-> [fn |-> fn, status |-> status, results |-> results, took |-> took]]

\* 100 * value / total, as the fraction <<100 * value, total>>
Percent(value, total) == <<100 * value, total>>

\* def normalize(numbers): the body, run on argument o whose chain is c.
\* A container's iterators are dropped when the call ends.
normalize_body(fn, o, c) ==
    LET first == Drain(SumIter(o, c), Len(SumIter(o, c)), <<>>)
        total == Sum(first.items)
        again == LoopIter(o, first.chain)
        second == Drain(again, Len(again), <<>>)
        kept == IF iter(o) = o THEN second.chain ELSE c
    IN  IF first.end # "StopIteration"
        THEN Outcome(fn, IF iter(o) = o THEN first.chain ELSE c,
                     first.end, <<>>, Len(first.items))
        ELSE IF second.end # "StopIteration"
        THEN Outcome(fn, kept, second.end, <<>>, Len(first.items) + Len(second.items))
        ELSE IF second.items # <<>> /\ total = 0
        THEN Outcome(fn, kept, "ZeroDivisionError", <<>>, Len(first.items) + 1)
        ELSE Outcome(fn, kept, "ok",
                     [i \in 1..Len(second.items) |-> Percent(second.items[i], total)],
                     Len(first.items) + Len(second.items))

\* The three functions: normalize, and the two definitions of
\* normalize_defensive, the second of which replaces the first.
NormalizeFns == {"normalize", "normalize_defensive: iter", "normalize_defensive"}

\* The test that makes normalize_defensive raise TypeError.
Rejects(fn, o) ==
    CASE fn = "normalize_defensive: iter" -> iter(o) = o
      [] fn = "normalize_defensive" -> isinstance(o, Iterator)
      [] OTHER -> FALSE

run_normalize(fn, o, c) ==
    IF Rejects(fn, o) THEN Outcome(fn, c, "TypeError", <<>>, 0)
    ELSE normalize_body(fn, o, c)

\* percentages = normalize(numbers), or normalize_defensive(numbers)
Normalize ==
    /\ prog = "normalize"
    /\ Complete
    /\ Len(norm) < MaxNorm
    /\ \E fn \in NormalizeFns :
          /\ pipe' = run_normalize(fn, numbers, pipe).pipe
          /\ norm' = Append(norm, run_normalize(fn, numbers, pipe).out)
    /\ UNCHANGED <<prog, plan, log, exh, after, lists, numbers>>
    /\ UNCHANGED bindVars
    /\ UNCHANGED decoVars

\* The iterators one call of normalize obtains: the sum's and the loop's.
Traversals == 2

\* iter(readVisits): a new iterator over the container joins those alive.
Iter ==
    /\ prog = "ReadVisits"
    /\ Len(pipe) < Traversals * Len(NewChain(numbers))
    /\ pipe' = pipe \o NewChain(numbers)
    /\ UNCHANGED <<prog, plan, log, exh, after, lists, numbers, norm>>
    /\ UNCHANGED bindVars
    /\ UNCHANGED decoVars

\* next() on one of the iterators obtained from the container.
NextOf ==
    /\ prog = "ReadVisits"
    /\ \E i \in 1..(Len(pipe) \div 2) : 2 * i \notin exh /\ Request(2 * i)

NextLazy == Create \/ NextItem \/ NextIt \/ ListAll \/ Normalize \/ Iter \/ NextOf

SpecLazy == InitLazy /\ [][NextLazy]_vars

\* The values stage k has handed to the script, in order.
Outs(k) ==
    LET mine == SelectSeq(log, LAMBDA e : e.k = k)
    IN  [i \in 1..Len(mine) |-> mine[i].val]

---------------------------------------------------------------------------
(* The claims about lazy sequences.                                        *)

\* The items of the source, and the part of it consumed so far.
Source == pipe[1].data

Consumed == SubSeq(Source, 1, pipe[1].pos)

\* C1: a pass-through generator over a source S (slow and fast over child,
\* my_generator over a range) hands out the items of S in order, each once:
\* what it has yielded is at every moment the prefix of S of that length, and
\* once it has reported exhaustion it has yielded exactly S.
C1_PassThrough ==
    (prog \in {"slow", "fast", "my_generator"} /\ Complete) =>
        /\ Len(Outs(Top)) <= Len(Source)
        /\ Outs(Top) = SubSeq(Source, 1, Len(Outs(Top)))
        /\ Top \in exh => Outs(Top) = Source

\* C1 witness: slow() has been driven to exhaustion over a source of at
\* least three items.
C1_Witness ==
    /\ prog = "slow" /\ Complete /\ Top \in exh
    /\ Len(Source) >= 3 /\ Len(Outs(Top)) >= 3

\* C2: once an iterator has reported exhaustion, every later request on it
\* reports exhaustion again (no value, no error), and a full traversal of
\* an exhausted iterator, the second list(it) of read_visits among them,
\* yields no item and ends by exhaustion.
C2_ExhaustedStaysExhausted ==
    /\ \A i \in 1..Len(after) : after[i].kind = "StopIteration"
    /\ \A i \in 1..Len(lists) :
          lists[i].wasExh => (lists[i].items = <<>> /\ lists[i].end = "StopIteration")

\* C2 witness: read_visits has been traversed twice, the first traversal
\* gave two values or more, and requests were made after the exhaustion.
C2_Witness ==
    /\ prog = "read_visits"
    /\ Len(lists) = 2 /\ Len(lists[1].items) >= 2 /\ lists[2].wasExh
    /\ Len(after) >= 2

\* C3: over a = 1..10, the map/filter chain driven to exhaustion yields
\* [4, 16, 36, 64, 100], and over every input it yields the list the
\* filtered comprehension even_squares builds.
C3_EvenSquares ==
    (prog = "alt" /\ Complete /\ Top \in exh) =>
        /\ Outs(Top) = even_squares(Source)
        /\ Source = a => Outs(Top) = <<4, 16, 36, 64, 100>>

\* C3 witness: the chain over a = 1..10 has been driven to exhaustion.
C3_Witness ==
    prog = "alt" /\ Complete /\ Top \in exh /\ Source = a /\ Len(Outs(Top)) = 5

\* C4, as stated: in the chain filter(even) -> map(square) over 1..10, the
\* source of the filter (the list) has been consumed once per output of the map.
C4_SourceOncePerOutput ==
    (prog = "alt" /\ Source = a /\ Complete) => pipe[1].nOut = Len(Outs(Top))

\* C4, amended: the map takes exactly one item from the filter per output it
\* produces, and the filter takes exactly two items from the list per output
\* (the odd one it skips, the even one it passes).
C4_FilterOncePerOutput ==
    (prog = "alt" /\ Source = a /\ Complete) =>
        /\ pipe[2].nOut = Len(Outs(Top))
        /\ pipe[3].nIn = Len(Outs(Top))
        /\ pipe[1].nOut = 2 * Len(Outs(Top))
        /\ pipe[1].pos = 2 * Len(Outs(Top))

\* C4 witness: the chain over 1..10 has produced three outputs and is not
\* yet exhausted.
C4_Witness ==
    prog = "alt" /\ Source = a /\ Complete /\ Len(Outs(Top)) = 3 /\ Top \notin exh

\* C5: in the script of roots over it, the cursor of the file is at every
\* moment the number of items handed out by direct pulls on it plus the
\* outputs of roots (so creating it or roots advanced nothing, and each
\* output of roots advanced it by one), and the i-th item handed out, by
\* either, is computed from the i-th line: the first one not yet consumed.
C5_Domino ==
    prog = "roots" =>
        /\ pipe[1].pos = Len(log)
        /\ \A i \in 1..Len(log) :
              log[i].val = IF log[i].k = 2 THEN Len(Source[i])
                           ELSE <<Len(Source[i]), 5 * Len(Source[i])>>
        /\ Len(pipe) >= 2 => pipe[2].nOut = Len(log)

\* C5 witness: a direct pull on it, then an output of roots, then a direct
\* pull again.
C5_Witness ==
    /\ prog = "roots" /\ Len(log) = 3
    /\ log[1].k = 2 /\ log[2].k = 3 /\ log[3].k = 2

\* The outputs a filtering generator owes for the items in `items`.
Expected(items) ==
    IF prog = "found"
    THEN LET sel == SelectSeq(items, LAMBDA n : stock_get(n, 0) >= 8)
         IN  [i \in 1..Len(sel) |-> <<sel[i], stock_get(sel[i], 0) \div 8>>]
    ELSE LET sel == SelectSeq(items, LAMBDA x : x % 2 = 0)
         IN  [i \in 1..Len(sel) |-> sel[i] * sel[i]]

Passes(x) == IF prog = "found" THEN stock_get(x, 0) >= 8 ELSE x % 2 = 0

\* C6: a sequence with an inclusion predicate (found over order, the even
\* filter of alt) has yielded exactly the passing items among those it has
\* consumed, in source order; it has evaluated each consumed item once; it
\* stops pulling only on a passing item or at the end of the source; and
\* when it reports exhaustion it has consumed the whole source.
C6_Filter ==
    (prog \in {"found", "alt"} /\ Complete) =>
        /\ Outs(Top) = Expected(Consumed)
        /\ pipe[2].nIn = pipe[1].pos
        /\ (pipe[1].pos > 0 /\ ~Passes(Source[pipe[1].pos])) => pipe[1].done
        /\ Top \in exh => (pipe[1].pos = Len(Source) /\ Outs(Top) = Expected(Source))

\* C6 witness: found over order has yielded screws and wingnuts, skipped
\* clips and reported exhaustion.
C6_Witness ==
    /\ prog = "found" /\ Source = order /\ Top \in exh
    /\ Outs(Top) = << <<"screws", 4>>, <<"wingnuts", 1>> >>

---------------------------------------------------------------------------
(* The binding of a call.  A parameter list is the ordered parameters of a *)
(* def statement, each in a zone: before the `/` ("posonly"), after the    *)
(* `*` ("kwonly"), or neither ("flex"); varargs and varkw tell whether the *)
(* def declares *args and **kwargs.  Python raises TypeError for every     *)
(* binding failure; err names the failure as the messages distinguish it:  *)
(*   TooManyPositionalArgs    takes N positional arguments but M were given*)
(*   UnexpectedKeyword        got some positional-only arguments passed as *)
(*                            keyword arguments / got multiple values for  *)
(*                            argument                                     *)
(*   UnknownParameter         got an unexpected keyword argument           *)
(*   MissingRequiredArgument  missing N required ... argument(s)           *)
(* False is the integer 0.                                                 *)

Param(name, zone) == [name |-> name, zone |-> zone, hasDefault |-> FALSE, default |-> 0]

ParamDefault(name, zone, default) ==
    [name |-> name, zone |-> zone, hasDefault |-> TRUE, default |-> default]

Def(name, params) == [name |-> name, params |-> params, varargs |-> FALSE, varkw |-> FALSE]

\* def reminder(number, divisor)
reminder == Def("reminder", <<Param("number", "flex"), Param("divisor", "flex")>>)

\* def safe_divisor_b(number, divisor, ignore_overflow=False, ignore_zero_divisor=False)
safe_divisor_b ==
    Def("safe_divisor_b",
        <<Param("number", "flex"), Param("divisor", "flex"),
          ParamDefault("ignore_overflow", "flex", 0),
          ParamDefault("ignore_zero_divisor", "flex", 0)>>)

\* def safe_divisor_c(numbers, divisor, *, ignore_overflow=False, ignore_zero_divisor=False)
safe_divisor_c ==
    Def("safe_divisor_c",
        <<Param("numbers", "flex"), Param("divisor", "flex"),
          ParamDefault("ignore_overflow", "kwonly", 0),
          ParamDefault("ignore_zero_divisor", "kwonly", 0)>>)

\* def safe_divisor_d(numerator, denominator, *, ignore_overflow=False, ignore_zero_divisor=False)
safe_divisor_d ==
    Def("safe_divisor_d",
        <<Param("numerator", "flex"), Param("denominator", "flex"),
          ParamDefault("ignore_overflow", "kwonly", 0),
          ParamDefault("ignore_zero_divisor", "kwonly", 0)>>)

\* def safe_divisor_e(numerator, denominator, /, *, ignore_overflow=False, ignore_zero_divisor=False)
safe_divisor_e ==
    Def("safe_divisor_e",
        <<Param("numerator", "posonly"), Param("denominator", "posonly"),
          ParamDefault("ignore_overflow", "kwonly", 0),
          ParamDefault("ignore_zero_divisor", "kwonly", 0)>>)

\* def safe_divisor_f(numerator, denominator, /, ndigits=10, *,
\*                    ignore_overflow=False, ignore_zero_divisor=False)
safe_divisor_f ==
    Def("safe_divisor_f",
        <<Param("numerator", "posonly"), Param("denominator", "posonly"),
          ParamDefault("ndigits", "flex", 10),
          ParamDefault("ignore_overflow", "kwonly", 0),
          ParamDefault("ignore_zero_divisor", "kwonly", 0)>>)

\* def log(message, values)
log_def == Def("log", <<Param("message", "flex"), Param("values", "flex")>>)

\* def flow_rate(weight_diff, time_diff, period=1)
flow_rate ==
    Def("flow_rate",
        <<Param("weight_diff", "flex"), Param("time_diff", "flex"),
          ParamDefault("period", "flex", 1)>>)

\* def print_arguments(**kwargs)
print_arguments == [Def("print_arguments", <<>>) EXCEPT !.varkw = TRUE]

\* The parameter list of the specification's example: def f(a, b, /, c=10, *, d)
abcd ==
    Def("abcd",
        <<Param("a", "posonly"), Param("b", "posonly"),
          ParamDefault("c", "flex", 10), Param("d", "kwonly")>>)

Functions ==
    {reminder, safe_divisor_b, safe_divisor_c, safe_divisor_d, safe_divisor_e,
     safe_divisor_f, abcd, log_def, flow_rate, print_arguments}

ParamNames(f) == {f.params[i].name : i \in 1..Len(f.params)}

ZoneNames(f, zones) == {f.params[i].name : i \in {j \in 1..Len(f.params) : f.params[j].zone \in zones}}

\* A zone mix-up: every parameter takes a positional argument.
PosCapableAll(f) == f.params

\* A zone mix-up: only the parameters before the `/` take a positional argument.
PosCapablePosOnly(f) == SelectSeq(f.params, LAMBDA p : p.zone = "posonly")

\* The parameters a positional argument can bind, in order: those before the `*`.
PosCapable(f) == SelectSeq(f.params, LAMBDA p : p.zone \in {"posonly", "flex"})

\* A zone mix-up: a named argument finds every parameter, those before the `/` too.
KeywordTargetsAll(f) == ParamNames(f)

\* The parameters a named argument can bind: those after the `/`.
KeywordTargets(f) == ZoneNames(f, {"flex", "kwonly"})

Min(m, n) == IF m <= n THEN m ELSE n

\* The state of a binding under way: the values bound so far and where
\* each came from, the surplus arguments collected, the error met.
Unbound == [vals |-> <<>>, src |-> <<>>, star |-> <<>>, kw |-> <<>>, err |-> "none"]

Bound(st, name, v, from) ==
    [st EXCEPT !.vals = (name :> v) @@ @, !.src = (name :> from) @@ @]

Fail(err) == [status |-> "error", err |-> err, vals |-> <<>>, src |-> <<>>,
              star |-> <<>>, kw |-> <<>>]

\* The positional arguments, left to right, fill the parameters before the
\* `*`; the surplus goes to *args when the def declares it.
RECURSIVE BindPositional(_, _, _, _)
BindPositional(f, st, pos, i) ==
    IF i > Min(Len(pos), Len(PosCapable(f)))
    THEN [st EXCEPT !.star = IF f.varargs THEN SubSeq(pos, i, Len(pos)) ELSE <<>>]
    ELSE BindPositional(f, Bound(st, PosCapable(f)[i].name, pos[i], "position"), pos, i + 1)

\* A catch-all that every def declares.
CatchAllEvery(f) == TRUE

\* The def declares **kwargs, which collects the named arguments that match
\* no parameter.
CatchAll(f) == f.varkw

\* A check that is never made: a named argument takes the place of the value
\* its parameter already holds.
AlreadyBoundNever(st, name) == FALSE

\* The parameter of a named argument already holds a value (got multiple
\* values for argument).
AlreadyBound(st, name) == name \in DOMAIN st.vals

\* Named arguments taken like positional ones: each binds the first
\* parameter still free, whatever its name.
RECURSIVE BindNamedInOrder(_, _, _, _)
BindNamedInOrder(f, st, named, i) ==
    IF i > Len(named) THEN st
    ELSE LET free == SelectSeq(f.params, LAMBDA p : p.name \notin DOMAIN st.vals)
         IN  IF free = <<>> THEN [st EXCEPT !.err = "UnknownParameter"]
             ELSE BindNamedInOrder(f, Bound(st, free[1].name, named[i].val, "name"),
                                   named, i + 1)

\* The named arguments, in the order written.  A name that is no parameter
\* after the `/` goes to **kwargs when the def declares it, and fails
\* otherwise; a name whose parameter already holds a value fails.
RECURSIVE BindNamed(_, _, _, _)
BindNamed(f, st, named, i) ==
    IF i > Len(named) THEN st
    ELSE LET name == named[i].name
         IN  IF name \in KeywordTargets(f)
             THEN IF AlreadyBound(st, name)
                  THEN [st EXCEPT !.err = "UnexpectedKeyword"]
                  ELSE BindNamed(f, Bound(st, name, named[i].val, "name"), named, i + 1)
             ELSE IF CatchAll(f)
             THEN BindNamed(f, [st EXCEPT !.kw = (name :> named[i].val) @@ @], named, i + 1)
             ELSE IF \E j \in 1..Len(named) : named[j].name \in ZoneNames(f, {"posonly"})
             THEN [st EXCEPT !.err = "UnexpectedKeyword"]
             ELSE [st EXCEPT !.err = "UnknownParameter"]

\* More positional arguments than parameters before the `*`, and no *args.
TooManyPositional(f, pos) == Len(pos) > Len(PosCapable(f)) /\ ~f.varargs

\* Defaults that are never looked at: every parameter is required.
MissingNoDefaults(f, st) ==
    {i \in 1..Len(f.params) : f.params[i].name \notin DOMAIN st.vals}

\* The parameters left unbound that declare no default.
Missing(f, st) ==
    {i \in 1..Len(f.params) :
        f.params[i].name \notin DOMAIN st.vals /\ ~f.params[i].hasDefault}

\* Defaults that are never read: every parameter left unbound takes None.
FillDefaultsNone(f, st) ==
    [status |-> "ok", err |-> "none",
     vals |-> [n \in ParamNames(f) |-> IF n \in DOMAIN st.vals THEN st.vals[n] ELSE 0],
     src |-> [n \in ParamNames(f) |-> IF n \in DOMAIN st.src THEN st.src[n] ELSE "default"],
     star |-> st.star, kw |-> st.kw]

\* Every parameter left unbound takes its declared default.
FillDefaults(f, st) ==
    [status |-> "ok", err |-> "none",
     vals |-> [n \in ParamNames(f) |->
                 IF n \in DOMAIN st.vals THEN st.vals[n]
                 ELSE f.params[CHOOSE i \in 1..Len(f.params) : f.params[i].name = n].default],
     src |-> [n \in ParamNames(f) |-> IF n \in DOMAIN st.src THEN st.src[n] ELSE "default"],
     star |-> st.star, kw |-> st.kw]

\* The call f(*pos, **named): the binding of every parameter, or the error.
Bind(f, pos, named) ==
    LET st == BindNamed(f, BindPositional(f, Unbound, pos, 1), named, 1)
    IN  IF st.err # "none" THEN Fail(st.err)
        ELSE IF TooManyPositional(f, pos) THEN Fail("TooManyPositionalArgs")
        ELSE IF Missing(f, st) # {} THEN Fail("MissingRequiredArgument")
        ELSE FillDefaults(f, st)

\* The positional arguments of a call: 1, 2, ..., n.
PosArgs == {[i \in 1..n |-> i] : n \in 0..MaxPos}

\* The values a named argument may carry.
NamedVals == {1, 2, 5}

\* The names a call of f may use: the parameters of f, and the other names
\* the snippets write: print_arguments(alpha=1.5, beta=9, ghama=4),
\* safe_divisor_d(numbers=2, divisor=5).
CallNames(f) ==
    ParamNames(f) \cup
        CASE f.name = "print_arguments" -> {"alpha", "beta", "ghama"}
          [] f.name = "safe_divisor_d" -> {"numbers", "divisor"}
          [] OTHER -> {"numbers"}

\* The named arguments of a call: pairwise distinct names, in any order.
NamedArgs(f) ==
    {s \in SeqsUpTo([name : CallNames(f), val : NamedVals], MaxNamed) :
        \A i, j \in 1..Len(s) : i # j => s[i].name # s[j].name}

NoCall == [fn |-> "none", pos |-> <<>>, named |-> <<>>]

InitBind ==
    /\ prog = "none"
    /\ pipe = <<>>
    /\ plan = <<>>
    /\ log = <<>>
    /\ exh = {}
    /\ after = <<>>
    /\ lists = <<>>
    /\ numbers = [cls |-> "none", data |-> <<>>]
    /\ norm = <<>>
    /\ call = NoCall
    /\ result = [status |-> "none"]
    /\ heap = <<>>
    /\ rets = <<>>
    /\ ran = 0
    /\ func = [kind |-> "none"]
    /\ trace = <<>>

\* One call of one of the functions.
Call ==
    /\ call = NoCall
    /\ \E f \in Functions : \E pos \in PosArgs : \E named \in NamedArgs(f) :
          /\ call' = [fn |-> f.name, pos |-> pos, named |-> named]
          /\ result' = Bind(f, pos, named)
    /\ UNCHANGED <<heap, rets, ran>>
    /\ UNCHANGED lazyVars
    /\ UNCHANGED decoVars

NextBind == Call

SpecBind == InitBind /\ [][NextBind]_vars

---------------------------------------------------------------------------
(* Calls in sequence: the script of noneAndDocstringFunc.py.  A dict is an *)
(* object on the heap, known by its address; a default value that is a     *)
(* dict is the address of the object the def statement created.  A dict is *)
(* the set of its <<key, value>> items.                                    *)

\* The function bodies executed in one run of the script.
MaxCalls == 2

\* None, and the address that is no object.
None == 0

\* The address of the dict that `default={}` creates when the def statement
\* of decode is executed.
DefaultDict == 1

\* def decode(data, default={})
decode ==
    Def("decode", <<Param("data", "flex"), ParamDefault("default", "flex", DefaultDict)>>)

\* def decode(data, default=None): the second definition of the script.
decode_none ==
    Def("decode_none", <<Param("data", "flex"), ParamDefault("default", "flex", None)>>)

Decoders == {decode, decode_none}

\* The second def statement rebinds the name decode: a call reaches the
\* definition in force, the one prog names.
Decoder == CHOOSE f \in Decoders : f.name = prog

\* The strings the script decodes: 'bad data' is no JSON text, '{}' is the
\* JSON text of an empty object.
Data == {"bad data", "{}"}

\* json.loads(data) returns a new object, or raises ValueError.
JsonOk(data) == data = "{}"

json_loads(data) == {}

\* foo['stuff'] = 5, bar['meep'] = 1
Items == {<<"stuff", 5>>, <<"meep", 1>>}

\* d[key] = val
SetItem(d, key, val) == {kv \in d : kv[1] # key} \cup {<<key, val>>}

\* A new object on the heap: the heap afterwards and the address returned.
Alloc(h, d) == [heap |-> Append(h, d), ret |-> Len(h) + 1]

\* A default evaluated at every call: the fallback is a dict of its own.
decode_body_fresh(vals, h) ==
    IF JsonOk(vals.data) THEN Alloc(h, json_loads(vals.data))
    ELSE IF vals.default = DefaultDict THEN Alloc(h, {})
    ELSE [heap |-> h, ret |-> vals.default]

\* try: return json.loads(data)
\* except ValueError: return default
decode_body(vals, h) ==
    IF JsonOk(vals.data) THEN Alloc(h, json_loads(vals.data))
    ELSE [heap |-> h, ret |-> vals.default]

\* One dict made for the whole script and handed out at every fallback.
decode_none_body_shared(vals, h) ==
    IF JsonOk(vals.data) THEN Alloc(h, json_loads(vals.data))
    ELSE IF vals.default = None THEN [heap |-> h, ret |-> DefaultDict]
    ELSE [heap |-> h, ret |-> vals.default]

\* try: return json.loads(data)
\* except ValueError:
\*     if default is None: default = {}
\*     return default
decode_none_body(vals, h) ==
    IF JsonOk(vals.data) THEN Alloc(h, json_loads(vals.data))
    ELSE IF vals.default = None THEN Alloc(h, {})
    ELSE [heap |-> h, ret |-> vals.default]

Body(f, vals, h) ==
    IF f.name = "decode" THEN decode_body(vals, h) ELSE decode_none_body(vals, h)

\* A def statement of decode has been executed, the first or the second;
\* the dict that is the default of the first is on the heap.
InitCalls ==
    /\ prog \in {"decode", "decode_none"}
    /\ pipe = <<>>
    /\ plan = <<>>
    /\ log = <<>>
    /\ exh = {}
    /\ after = <<>>
    /\ lists = <<>>
    /\ numbers = [cls |-> "none", data |-> <<>>]
    /\ norm = <<>>
    /\ call = NoCall
    /\ result = [status |-> "none"]
    /\ heap = << {} >>
    /\ rets = <<>>
    /\ ran = 0
    /\ func = [kind |-> "none"]
    /\ trace = <<>>

\* A rejected call that is counted as a run of the function all the same.
RejectedCounted == ran' = ran + 1 /\ UNCHANGED <<heap, rets>>

\* TypeError is raised at the call: no frame is run.
Rejected == UNCHANGED <<heap, rets, ran>>

\* The arguments of a call of decode: the data and the default by position,
\* and at most one argument by name.
DecodePos ==
    {<<>>} \cup {<<d>> : d \in Data} \cup {<<d, None>> : d \in Data}
           \cup {<<d, None, None>> : d \in Data}

DecodeNamed ==
    {<<>>, <<[name |-> "default", val |-> None]>>, <<[name |-> "numbers", val |-> None]>>}

DecodeNamedData == {<<[name |-> "data", val |-> "bad data"]>>}

\* The call decode(*pos, **named): the arguments are bound and, unless that
\* fails, the body is run; what it returns is kept (the script binds it to
\* foo, to bar).
DecodeCall(f, pos, named) ==
    LET b == Bind(f, pos, named)
    IN  /\ call' = [fn |-> f.name, pos |-> pos, named |-> named]
        /\ result' = b
        /\ IF b.status = "ok"
           THEN LET out == Body(f, b.vals, heap)
                IN  /\ ran < MaxCalls
                    /\ ran' = ran + 1
                    /\ heap' = out.heap
                    /\ rets' = Append(rets,
                          [bad |-> ~JsonOk(b.vals.data), given |-> b.vals.default,
                           ref |-> out.ret, fresh |-> out.ret > Len(heap)])
           ELSE Rejected
        /\ UNCHANGED prog
        /\ UNCHANGED <<pipe, plan, log, exh, after, lists, numbers, norm>>
        /\ UNCHANGED decoVars

\* foo = decode('bad data'), and the other calls of decode.
Decode ==
    \E pos \in DecodePos :
        \/ \E named \in DecodeNamed : DecodeCall(Decoder, pos, named)
        \/ \E named \in DecodeNamedData : DecodeCall(Decoder, pos, named)

\* The calls of the other scripts, made between those of decode:
\* reminder(20, 7), reminder(20, number=7) and
\* safe_divisor_c(1.0, 10**500, True, False).
OtherCalls ==
    {[f |-> reminder, pos |-> <<1, 2>>, named |-> <<>>],
     [f |-> reminder, pos |-> <<1>>, named |-> <<[name |-> "number", val |-> 5]>>],
     [f |-> safe_divisor_c, pos |-> <<1, 2, 3, 4>>, named |-> <<>>]}

\* A call of another function: its body computes a number and changes nothing.
CallOther ==
    \E c \in OtherCalls :
        LET b == Bind(c.f, c.pos, c.named)
        IN  /\ call' = [fn |-> c.f.name, pos |-> c.pos, named |-> c.named]
            /\ result' = b
            /\ IF b.status = "ok"
               THEN ran < MaxCalls /\ ran' = ran + 1 /\ UNCHANGED <<heap, rets>>
               ELSE Rejected
            /\ UNCHANGED prog
            /\ UNCHANGED <<pipe, plan, log, exh, after, lists, numbers, norm>>
            /\ UNCHANGED decoVars

\* foo['stuff'] = 5: an item assignment through a dict that decode
\* returned; it is the call foo.__setitem__('stuff', 5) of a built-in.
Assign ==
    /\ \E i \in 1..Len(rets) : \E kv \in Items :
          /\ rets[i].ref # None
          /\ heap' = [heap EXCEPT ![rets[i].ref] = SetItem(@, kv[1], kv[2])]
          /\ call' = [fn |-> "__setitem__", pos |-> <<rets[i].ref, kv[1], kv[2]>>,
                      named |-> <<>>]
    /\ result' = [status |-> "ok", err |-> "none", vals |-> <<>>, src |-> <<>>,
                  star |-> <<>>, kw |-> <<>>]
    /\ UNCHANGED <<rets, ran>>
    /\ UNCHANGED lazyVars
    /\ UNCHANGED decoVars

NextCalls == Decode \/ CallOther \/ Assign

SpecCalls == InitCalls /\ [][NextCalls]_vars

---------------------------------------------------------------------------
(* The claims about the binding of calls.                                  *)

Called(f, pos, named) == call = [fn |-> f.name, pos |-> pos, named |-> named]

\* The function the current call is made on.
Callee == CHOOSE f \in Functions : f.name = call.fn

NamedNames == {call.named[i].name : i \in 1..Len(call.named)}

\* C7: against positional-only (a, b), flexible c = 10 and keyword-only d,
\* the call with positional [1, 2] and named {d: 5} succeeds and binds
\* a = 1, b = 2, c = 10, d = 5.
C7_BindExample ==
    Called(abcd, <<1, 2>>, <<[name |-> "d", val |-> 5]>>) =>
        /\ result.status = "ok"
        /\ result.vals = [a |-> 1, b |-> 2, c |-> 10, d |-> 5]
        /\ result.src = [a |-> "position", b |-> "position", c |-> "default", d |-> "name"]

\* C7 witness: that call has been made and bound.
C7_Witness ==
    Called(abcd, <<1, 2>>, <<[name |-> "d", val |-> 5]>>) /\ result.status = "ok"

\* C8, as stated: against the same parameter list, the call with positional
\* [1, 2, 3] and no named argument is rejected with TooManyPositionalArgs.
C8_TooManyPositional ==
    Called(abcd, <<1, 2, 3>>, <<>>) =>
        (result.status = "error" /\ result.err = "TooManyPositionalArgs")

\* C8, amended: the call with positional [1, 2, 3] and no named argument is
\* rejected with MissingRequiredArgument: the third argument binds the
\* flexible c, as safe_divisor_f(1, 2, 3) binds ndigits = 3, and d is left
\* without a value; with d named as well the call binds a = 1, b = 2, c = 3.
\* TooManyPositionalArgs is the error from four positional arguments on.
C8_ThirdPositionalBindsFlexible ==
    /\ Called(abcd, <<1, 2, 3>>, <<>>) =>
          (result.status = "error" /\ result.err = "MissingRequiredArgument")
    /\ Called(abcd, <<1, 2, 3>>, <<[name |-> "d", val |-> 5]>>) =>
          (result.status = "ok" /\ result.vals = [a |-> 1, b |-> 2, c |-> 3, d |-> 5])
    /\ Called(safe_divisor_f, <<1, 2, 3>>, <<>>) =>
          (result.status = "ok" /\ result.vals.ndigits = 3
           /\ result.src.ndigits = "position")
    /\ Called(abcd, <<1, 2, 3, 4>>, <<>>) =>
          (result.status = "error" /\ result.err = "TooManyPositionalArgs")

\* C8 witness: the call with positional [1, 2, 3] and no named argument
\* has been made and rejected.
C8_Witness == Called(abcd, <<1, 2, 3>>, <<>>) /\ result.status = "error"

\* C9: a call that names a positional-only parameter is rejected with
\* UnexpectedKeyword and yields no binding; and in no binding does a
\* positional-only parameter hold a value given by name.
C9_PositionalOnlyNotByName ==
    call # NoCall =>
        /\ NamedNames \cap ZoneNames(Callee, {"posonly"}) # {} =>
              /\ result.status = "error"
              /\ result.vals = <<>>
              /\ result.err = "UnexpectedKeyword"
        /\ result.status = "ok" =>
              \A n \in ZoneNames(Callee, {"posonly"}) : result.src[n] = "position"

\* C9 witness: safe_divisor_e(numerator=2, denominator=5) has been rejected.
C9_Witness ==
    /\ Called(safe_divisor_e, <<>>, <<[name |-> "numerator", val |-> 2],
                                      [name |-> "denominator", val |-> 5]>>)
    /\ result.status = "error" /\ result.err = "UnexpectedKeyword"

\* C10: in no binding does a keyword-only parameter hold a value given by
\* position, and a call with more positional arguments than parameters
\* before the `*` is rejected; safe_divisor_c called with four positional
\* arguments fails with TooManyPositionalArgs.
C10_KeywordOnlyNotByPosition ==
    call # NoCall =>
        /\ result.status = "ok" =>
              \A n \in ZoneNames(Callee, {"kwonly"}) : result.src[n] \in {"name", "default"}
        /\ Len(call.pos) > Cardinality(ZoneNames(Callee, {"posonly", "flex"})) =>
              result.status = "error"
        /\ Called(safe_divisor_c, <<1, 2, 3, 4>>, <<>>) =>
              result.err = "TooManyPositionalArgs"

\* C10 witness: safe_divisor_c has been called with four positional
\* arguments and the call rejected.
C10_Witness ==
    Called(safe_divisor_c, <<1, 2, 3, 4>>, <<>>) /\ result.status = "error"

\* The arguments of the current call, seen from the call site: whether a
\* parameter is given a positional argument, a named one, and which values.
PosIndex(n) ==
    CHOOSE i \in 1..Len(PosCapable(Callee)) : PosCapable(Callee)[i].name = n

ByPosition(n) ==
    \E i \in 1..Min(Len(call.pos), Len(PosCapable(Callee))) : PosCapable(Callee)[i].name = n

ByName(n) == n \in NamedNames

NamedVal(n) == call.named[CHOOSE i \in 1..Len(call.named) : call.named[i].name = n].val

ParamOf(n) == Callee.params[CHOOSE i \in 1..Len(Callee.params) : Callee.params[i].name = n]

\* The names written in the call that are no parameter of the function.
UnknownNames == NamedNames \ ParamNames(Callee)

\* C11: in every successful binding no parameter is given both by position
\* and by name, and each parameter holds the one value its one source
\* gave: the positional argument at its index, the named argument of its
\* name, or else its default.  A call that gives a parameter both ways is
\* rejected and binds nothing, with UnexpectedKeyword when every name it
\* writes is a parameter; reminder(20, number=7) is such a call.
C11_OneValueOneSource ==
    call # NoCall =>
        /\ result.status = "ok" =>
              \A n \in ParamNames(Callee) :
                 /\ ~(ByPosition(n) /\ ByName(n))
                 /\ ByPosition(n) => (result.src[n] = "position"
                                      /\ result.vals[n] = call.pos[PosIndex(n)])
                 /\ ByName(n) => (result.src[n] = "name" /\ result.vals[n] = NamedVal(n))
                 /\ (~ByPosition(n) /\ ~ByName(n)) => result.src[n] = "default"
        /\ (\E n \in ParamNames(Callee) : ByPosition(n) /\ ByName(n)) =>
              /\ result.status = "error"
              /\ result.vals = <<>>
              /\ UnknownNames = {} => result.err = "UnexpectedKeyword"
        /\ (call.fn = "reminder" /\ call.pos = <<1>> /\ NamedNames = {"number"}) =>
              (result.status = "error" /\ result.err = "UnexpectedKeyword")

\* C11 witness: reminder(20, number=7) has been rejected: one positional
\* argument, and number given by name as well.
C11_Witness ==
    /\ Called(reminder, <<1>>, <<[name |-> "number", val |-> 5]>>)
    /\ result.status = "error" /\ result.err = "UnexpectedKeyword"

\* The call fails while its positional and named arguments are consumed: a
\* name that can bind nothing and is not collected, a parameter given twice,
\* or more positional arguments than parameters to take them.
ConsumeFails ==
    \/ \E n \in NamedNames :
          \/ n \notin ZoneNames(Callee, {"flex", "kwonly"}) /\ ~Callee.varkw
          \/ ByPosition(n)
    \/ Len(call.pos) > Cardinality(ZoneNames(Callee, {"posonly", "flex"})) /\ ~Callee.varargs

\* The parameters the call gives no argument.
NotGiven == {n \in ParamNames(Callee) : ~ByPosition(n) /\ ~ByName(n)}

\* C12: in every successful binding each parameter the call gives no
\* argument declares a default and holds it; and the call fails with
\* MissingRequiredArgument exactly when its arguments are consumed without
\* error and some parameter given no argument has no default.
\* flow_rate(weight_diff, time_diff) binds period = 1; log('Hello') is
\* rejected.
C12_DefaultsAndMissing ==
    call # NoCall =>
        /\ result.status = "ok" =>
              \A n \in NotGiven :
                 /\ ParamOf(n).hasDefault
                 /\ result.vals[n] = ParamOf(n).default
                 /\ result.src[n] = "default"
        /\ (result.status = "error" /\ result.err = "MissingRequiredArgument") <=>
              (~ConsumeFails /\ \E n \in NotGiven : ~ParamOf(n).hasDefault)
        /\ Called(flow_rate, <<1, 2>>, <<>>) =>
              /\ result.status = "ok"
              /\ result.vals = [weight_diff |-> 1, time_diff |-> 2, period |-> 1]
              /\ result.src.period = "default"
        /\ Called(log_def, <<1>>, <<>>) =>
              (result.status = "error" /\ result.err = "MissingRequiredArgument")

\* C12 witness: flow_rate(weight_diff, time_diff) has been bound, period
\* left to its default.
C12_Witness ==
    Called(flow_rate, <<1, 2>>, <<>>) /\ result.status = "ok" /\ result.vals.period = 1

\* The first named argument, in the order written, whose name is no parameter.
FirstUnknown == CHOOSE i \in 1..Len(call.named) :
                    /\ call.named[i].name \in UnknownNames
                    /\ \A j \in 1..(i - 1) : call.named[j].name \notin UnknownNames

Exchanged(i, j) ==
    [k \in 1..Len(call.named) |->
        IF k = i THEN call.named[j] ELSE IF k = j THEN call.named[i] ELSE call.named[k]]

\* The outcome b is the outcome of the current call: both bind, to the same
\* values, or both are rejected.
SameBinding(b) ==
    /\ b.status = result.status
    /\ b.vals = result.vals
    /\ b.kw = result.kw

\* The last positional argument of the current call binds a flexible
\* parameter that the call does not name.
LastIsFlexible ==
    /\ call.pos # <<>>
    /\ Len(call.pos) <= Len(PosCapable(Callee))
    /\ PosCapable(Callee)[Len(call.pos)].zone = "flex"
    /\ PosCapable(Callee)[Len(call.pos)].name \notin NamedNames

\* The current call with its last positional argument written by name instead.
LastByName ==
    Bind(Callee, SubSeq(call.pos, 1, Len(call.pos) - 1),
         Append(call.named, [name |-> PosCapable(Callee)[Len(call.pos)].name,
                             val |-> call.pos[Len(call.pos)]]))

\* C17: exchanging any two named arguments of a call changes neither whether
\* it binds nor the value any parameter is bound to (so no order of the
\* named arguments does), and neither does writing by name the last
\* positional argument when it binds a flexible parameter.  reminder(20, 7),
\* reminder(20, divisor=7), reminder(number=20, divisor=7) and
\* reminder(divisor=7, number=20) bind number and divisor alike, and so do
\* safe_divisor_c(numbers=2, divisor=5), safe_divisor_c(divisor=5, numbers=2)
\* and safe_divisor_c(2, divisor=5).
C17_OrderAndFormIndependent ==
    call # NoCall =>
        /\ \A i, j \in 1..Len(call.named) :
              SameBinding(Bind(Callee, call.pos, Exchanged(i, j)))
        /\ LastIsFlexible => SameBinding(LastByName)
        /\ (\/ Called(reminder, <<1, 2>>, <<>>)
            \/ Called(reminder, <<1>>, <<[name |-> "divisor", val |-> 2]>>)
            \/ Called(reminder, <<>>, <<[name |-> "number", val |-> 1],
                                        [name |-> "divisor", val |-> 2]>>)
            \/ Called(reminder, <<>>, <<[name |-> "divisor", val |-> 2],
                                        [name |-> "number", val |-> 1]>>)) =>
              (result.status = "ok" /\ result.vals = [number |-> 1, divisor |-> 2])
        /\ (\/ Called(safe_divisor_c, <<>>, <<[name |-> "numbers", val |-> 1],
                                              [name |-> "divisor", val |-> 5]>>)
            \/ Called(safe_divisor_c, <<>>, <<[name |-> "divisor", val |-> 5],
                                              [name |-> "numbers", val |-> 1]>>)
            \/ Called(safe_divisor_c, <<1>>, <<[name |-> "divisor", val |-> 5]>>)) =>
              /\ result.status = "ok"
              /\ result.vals = [numbers |-> 1, divisor |-> 5, ignore_overflow |-> 0,
                                ignore_zero_divisor |-> 0]

\* C17 witness: reminder(divisor=7, number=20) has been bound: the named
\* arguments in the reverse of the order of the parameters.
C17_Witness ==
    /\ Called(reminder, <<>>, <<[name |-> "divisor", val |-> 2],
                                [name |-> "number", val |-> 1]>>)
    /\ result.status = "ok"

---------------------------------------------------------------------------
(* The claims about calls in sequence.                                     *)

\* The result e came from a call that failed to decode its data and fell
\* back to the default the def declares.
FellBack(e) == e.bad /\ e.given = Decoder.params[2].default

\* The results, after the step, of the calls that fell back.
FellBackAfter == {i \in 1..Len(rets') : FellBack(rets'[i])}

\* The step is a call of decode that returned, and what it returned.
Returns == rets' # rets

Last == rets'[Len(rets')]

\* C14: with decode(data, default={}), after every step: each result of a
\* call that fell back to the default is the one dict made when the def
\* statement ran, so any two such results are the same object and show the
\* same items, whichever of them an item was assigned through; and the dict
\* a later such call returns holds every item assigned before the call.
C14_SharedDefault ==
    [][prog = "decode" =>
          /\ \A i \in FellBackAfter : rets'[i].ref = DefaultDict /\ ~rets'[i].fresh
          /\ \A i, j \in FellBackAfter :
                /\ rets'[i].ref = rets'[j].ref
                /\ heap'[rets'[i].ref] = heap'[rets'[j].ref]
          /\ (Returns /\ FellBack(Last)) =>
                (heap' = heap /\ heap'[Last.ref] = heap[DefaultDict])]_vars

\* C14 witness: foo = decode('bad data'), foo['stuff'] = 5,
\* bar = decode('also bad'), bar['meep'] = 1: both show both items.
C14_Witness ==
    /\ prog = "decode" /\ Len(rets) = 2
    /\ FellBack(rets[1]) /\ FellBack(rets[2])
    /\ heap[rets[1].ref] = {<<"stuff", 5>>, <<"meep", 1>>}
    /\ heap[rets[2].ref] = {<<"stuff", 5>>, <<"meep", 1>>}

\* C15: with decode(data, default=None), after every step: each result of a
\* call that failed to decode and had None for default is a dict allocated
\* by that call, which is no other result of any call; the dict is empty
\* when it is returned, whatever was assigned before, and the call changes
\* no dict there was; and an item assignment changes the items of one dict
\* only, so of one such result at most.
C15_FreshDefault ==
    [][prog = "decode_none" =>
          /\ \A i \in FellBackAfter :
                /\ rets'[i].fresh
                /\ rets'[i].ref \notin {None, DefaultDict}
                /\ \A j \in 1..Len(rets') : j # i => rets'[j].ref # rets'[i].ref
          /\ (Returns /\ FellBack(Last)) =>
                /\ Last.ref = Len(heap) + 1
                /\ heap'[Last.ref] = {}
                /\ \A k \in 1..Len(heap) : heap'[k] = heap[k]
          /\ ~Returns =>
                /\ Cardinality({k \in 1..Len(heap) : heap'[k] # heap[k]}) <= 1
                /\ Cardinality({i \in FellBackAfter :
                                   heap'[rets'[i].ref] # heap[rets[i].ref]}) <= 1]_vars

\* C15 witness: foo = decode('bad data'), foo['stuff'] = 5,
\* bar = decode('also bad data'), bar['meep'] = 1: each shows its own item.
C15_Witness ==
    /\ prog = "decode_none" /\ Len(rets) = 2
    /\ FellBack(rets[1]) /\ FellBack(rets[2])
    /\ heap[rets[1].ref] = {<<"stuff", 5>>}
    /\ heap[rets[2].ref] = {<<"meep", 1>>}

\* The parameter list a call is bound against.
Defined(fn) == CHOOSE f \in Decoders \cup {reminder, safe_divisor_c} : f.name = fn

BindErrors ==
    {"TooManyPositionalArgs", "UnexpectedKeyword", "UnknownParameter",
     "MissingRequiredArgument"}

\* C16: a step that is a rejected call changes nothing but the call and its
\* outcome, one of the four binding errors with no binding: the heap, and
\* the default dict on it, the results held and the count of bodies run
\* stay as they were; a body is run, and a result returned, only by a call
\* that bound; and the outcome of every call, made after rejected calls or
\* not, is the binding of its arguments against the parameter list as it
\* was defined.
C16_RejectedCallChangesNothing ==
    [][/\ result'.status = "error" =>
             /\ heap' = heap /\ rets' = rets /\ ran' = ran
             /\ result'.err \in BindErrors
             /\ result'.vals = <<>>
       /\ (ran' # ran \/ rets' # rets) => (result'.status = "ok" /\ ran' = ran + 1)
       /\ call'.fn \notin {"none", "__setitem__"} =>
             result' = Bind(Defined(call'.fn), call'.pos, call'.named)]_vars

\* C16 witness: reminder(20, number=7) has been rejected after foo was
\* returned by decode and an item assigned through it.
C16_Witness ==
    /\ call.fn = "reminder" /\ result.status = "error"
    /\ Len(rets) >= 1 /\ ran >= 1 /\ heap[DefaultDict] # {}

---------------------------------------------------------------------------
(* Claims about composed generators.                                       *)

IsPrefix(s, t) == Len(s) <= Len(t) /\ s = SubSeq(t, 1, Len(s))

\* Everything a script yields when it is traversed from start to end.
Full(p, input) == Drain(Script(p, input), Len(Script(p, input)), <<>>).items

\* The input the running script was started with, read off its ranges.
Started ==
    IF prog \in {"animate", "animate_composed"}
    THEN <<Len(pipe[1].data), Len(pipe[3].data), Len(pipe[5].data)>>
    ELSE Len(pipe[1].data)

\* The same computation written the other way.
Counterpart ==
    CASE prog = "animate" -> "animate_composed"
      [] prog = "animate_composed" -> "animate"
      [] prog = "slow" -> "fast"
      [] prog = "fast" -> "slow"

\* period1 times 5.0, then period2 times 0, then period3 times 3.0
Deltas(periods) ==
    [i \in 1..(periods[1] + periods[2] + periods[3]) |->
        IF i <= periods[1] THEN 50
        ELSE IF i <= periods[1] + periods[2] THEN 0 ELSE 30]

\* Sub-generator j has run: it has asked its range for an item, or ended.
HasRun(j) == pipe[j].nIn > 0 \/ pipe[j].done

\* C20: animate_composed (yield from) and animate (nested loops) yield the
\* same deltas in the same order, those of move(4, 5.0), pause(3) and
\* move(2, 3.0) one after the other, each sub-generator being exhausted
\* before the next one starts; fast (yield from) and slow (an explicit loop)
\* yield the same values in the same order.
C20_YieldFromIsTheLoop ==
    (prog \in {"animate", "animate_composed", "slow", "fast"} /\ Complete) =>
        /\ IsPrefix(Outs(Top), Full(Counterpart, Started))
        /\ Top \in exh => Outs(Top) = Full(Counterpart, Started)
        /\ \A l \in 1..Len(lists) :
              ~lists[l].wasExh /\ (l > 1 => lists[l - 1].end # "StopIteration") =>
                 Outs(Top) = Full(Counterpart, Started)
        /\ prog \in {"animate", "animate_composed"} =>
              /\ IsPrefix(Outs(Top), Deltas(Started))
              /\ Top \in exh => Outs(Top) = Deltas(Started)
              /\ HasRun(4) => pipe[2].done
              /\ HasRun(6) => pipe[4].done
              /\ Len(Outs(Top)) > Started[1] => pipe[2].done
              /\ Len(Outs(Top)) > Started[1] + Started[2] => pipe[4].done

\* animate_composed with the periods 4, 3, 2 of the snippet, run to its end.
C20_Witness ==
    /\ prog = "animate_composed"
    /\ Complete
    /\ Started = <<4, 3, 2>>
    /\ Top \in exh
    /\ Outs(Top) = <<50, 50, 50, 50, 0, 0, 0, 30, 30>>

---------------------------------------------------------------------------
(* Claims about arguments that are iterated more than once.                *)

\* The iterators obtained from the container so far: the tops of their chains.
Iterators == {2 * i : i \in 1..(Len(pipe) \div 2)}

AllInts(file) == \A j \in 1..Len(file) : IntOk(file[j])

\* The list of the file's values.
ValuesOf(file) == [j \in 1..Len(file) |-> int(file[j])]

\* C18: every traversal of a ReadVisits container starts a new iterator at
\* the beginning of the file, and the iterators obtained from one container
\* advance and end independently of each other: what each has yielded is
\* the values of the first lines of the file, as many as it was asked for,
\* and its place in the file is its own.  So normalize(ReadVisits(path))
\* returns what normalize returns for the list of the file's values, at
\* every call.
C18_ContainerRestarts ==
    /\ prog = "ReadVisits" =>
          \A k \in Iterators :
             LET outs == Outs(k)
                 file == numbers.data
                 at == pipe[k - 1].pos
             IN  /\ Len(outs) <= Len(file)
                 /\ \A j \in 1..Len(outs) : IntOk(file[j]) /\ outs[j] = int(file[j])
                 /\ at \in {Len(outs), Len(outs) + 1}
                 /\ at = Len(outs) + 1 => ~IntOk(file[at])
                 /\ k \in exh => Len(outs) = Len(file) \/ ~IntOk(file[Len(outs) + 1])
    /\ (prog = "normalize" /\ numbers.cls = "ReadVisits") =>
          \A n \in 1..Len(norm) :
             LET file == numbers.data
                 values == ValuesOf(file)
                 ofList == run_normalize("normalize", [cls |-> "list", data |-> values], <<>>).out
             IN  norm[n].fn = "normalize" =>
                    /\ ~AllInts(file) => norm[n].status = "ValueError"
                    /\ AllInts(file) =>
                          /\ norm[n].status = ofList.status
                          /\ norm[n].results = ofList.results
                          /\ norm[n].status = "ok" <=> (values = <<>> \/ Sum(values) # 0)
                          /\ norm[n].status = "ok" =>
                                norm[n].results =
                                   [j \in 1..Len(file) |-> <<100 * values[j], Sum(values)>>]

\* normalize(readVisits), twice, on a file of three numbers.
C18_Witness ==
    /\ prog = "normalize"
    /\ numbers.cls = "ReadVisits"
    /\ numbers.data = <<<<"1", "5", "\n">>, <<"8", "0">>, <<"1", "5", "\n">>>>
    /\ Len(norm) = 2
    /\ \A n \in 1..2 :
          /\ norm[n].fn = "normalize"
          /\ norm[n].status = "ok"
          /\ norm[n].results = <<<<1500, 110>>, <<8000, 110>>, <<1500, 110>>>>

\* A single-pass iterator: a generator, or the iterator of a list.
SinglePass(o) == o.cls \in {"generator", "list_iterator"}

\* Nothing has been drawn from any iterator of the chain.
Untouched ==
    \A k \in 1..Len(pipe) :
       pipe[k].pos = 0 /\ ~pipe[k].done /\ pipe[k].nIn = 0 /\ pipe[k].nOut = 0

\* C19: normalize_defensive raises TypeError, before it has drawn any item
\* from its argument, exactly when the argument is a single-pass iterator;
\* for a list or a ReadVisits container it returns what normalize returns.
\* The two tests, `iter(numbers) is numbers` and
\* `isinstance(numbers, Iterator)`, accept and reject the same arguments.
C19_DefensiveRejectsIterators ==
    prog = "normalize" =>
        /\ (iter(numbers) = numbers) <=> isinstance(numbers, Iterator)
        /\ isinstance(numbers, Iterator) <=> SinglePass(numbers)
        /\ \A n \in 1..Len(norm) :
              norm[n].fn # "normalize" =>
                 /\ norm[n].status = "TypeError" <=> SinglePass(numbers)
                 /\ norm[n].status = "TypeError" =>
                       norm[n].took = 0 /\ norm[n].results = <<>>
                 /\ ~SinglePass(numbers) =>
                       [norm[n] EXCEPT !.fn = "normalize"] =
                          run_normalize("normalize", numbers, pipe).out
        /\ (SinglePass(numbers) /\ \A n \in 1..Len(norm) : norm[n].fn # "normalize") =>
              Untouched

\* it = iter(visits); normalize_defensive(it)
C19_Witness ==
    /\ prog = "normalize"
    /\ numbers.cls = "list_iterator"
    /\ numbers.data = visits
    /\ Len(norm) = 1
    /\ norm[1].fn = "normalize_defensive"
    /\ norm[1].status = "TypeError"
    /\ Untouched

---------------------------------------------------------------------------
(* Claims about the word indexes.                                          *)

\* Where the words of a text start: at 0 when the text is not empty, and
\* right after every space (index + 1 for a space at index, counted from 0).
WordStarts(text) ==
    (IF text # <<>> THEN {0} ELSE {}) \cup {i \in 1..Len(text) : text[i] = " "}

StrictlyIncreasing(xs) == \A i \in 1..(Len(xs) - 1) : xs[i] < xs[i + 1]

\* C21: for every text, index_words_iter driven to its end yields exactly
\* the list index_words returns: 0 first when the text is not empty, then
\* index + 1 for every space, in increasing order.
C21_IterYieldsIndexWords ==
    prog = "index_words_iter" =>
        LET text == pipe[1].data
            whole == index_words(text)
        IN  /\ IsPrefix(Outs(Top), whole)
            /\ (Top \in exh \/ lists # <<>>) => Outs(Top) = whole
            /\ (lists # <<>> /\ Len(lists[1].items) = Len(Outs(Top))) =>
                  lists[1].items = whole
            /\ text # <<>> => whole[1] = 0
            /\ {whole[i] : i \in 1..Len(whole)} = WordStarts(text)
            /\ StrictlyIncreasing(whole)

\* result = list(index_words_iter(address))
C21_Witness ==
    /\ prog = "index_words_iter"
    /\ pipe[1].data = address
    /\ Len(lists) = 1
    /\ lists[1].items = <<0, 5, 11, 15, 21, 27>>
    /\ Top \in exh

\* The whole text of a file: its lines one after the other.
RECURSIVE Concat(_)
Concat(lines) == IF lines = <<>> THEN <<>> ELSE Head(lines) \o Concat(Tail(lines))

\* C22: index_file, which streams its input line by line, yields the
\* offsets index_words returns for the whole text of the input, the
\* concatenation of the lines.
C22_IndexFileYieldsIndexWords ==
    (prog = "index_file" /\ Complete) =>
        LET whole == index_words(Concat(pipe[1].data))
        IN  /\ IsPrefix(Outs(Top), whole)
            /\ Top \in exh => Outs(Top) = whole

---------------------------------------------------------------------------
(* Decorators.  A def under @d binds its name to d(function); a decorator  *)
(* returns its inner wrapper, a closure that holds the function it was     *)
(* given.  A call of the name runs the wrapper, which calls that function. *)

\* The values the decorated functions handle.
NoneValue == [type |-> "NoneType", v |-> <<>>]

Str(chars) == [type |-> "str", v |-> chars]

List(items) == [type |-> "list", v |-> items]

\* str.upper() on the letters the texts are made of.
Lower == <<"h", "i", "r", "a", "b">>

Capital == <<"H", "I", "R", "A", "B">>

UpperOf(ch) ==
    IF \E j \in 1..Len(Lower) : Lower[j] = ch
    THEN Capital[CHOOSE j \in 1..Len(Lower) : Lower[j] = ch]
    ELSE ch

upper(chars) == [j \in 1..Len(chars) |-> UpperOf(chars[j])]

\* str.split(): the words between runs of whitespace, none of them empty.
RECURSIVE split_from(_, _)
split_from(chars, word) ==
    IF chars = <<>> THEN (IF word = <<>> THEN <<>> ELSE <<word>>)
    ELSE IF Head(chars) \in {" ", "\n"}
    THEN (IF word = <<>> THEN <<>> ELSE <<word>>) \o split_from(Tail(chars), <<>>)
    ELSE split_from(Tail(chars), Append(word, Head(chars)))

split(chars) == split_from(chars, <<>>)

\* A function made by a def: its parameter list and the value its body returns.
Function(def, returns) == [kind |-> "def", def |-> def, returns |-> returns]

\* def cities(city1, city2): print(...)
cities ==
    Function(Def("cities", <<Param("city1", "flex"), Param("city2", "flex")>>), NoneValue)

\* def function_with_no_arguments(): print('No arguments here')
function_with_no_arguments == Function(Def("function_with_no_arguments", <<>>), NoneValue)

\* def function_with_arguments(a, b, c): print(a, b, c)
function_with_arguments ==
    Function(Def("function_with_arguments",
                 <<Param("a", "flex"), Param("b", "flex"), Param("c", "flex")>>), NoneValue)

\* def funciton_with_keyword_arguments(): print(...)
funciton_with_keyword_arguments ==
    Function(Def("funciton_with_keyword_arguments", <<>>), NoneValue)

\* def say_hi(): return 'hi rabbi'
hi_rabbi == <<"h", "i", " ", "r", "a", "b", "b", "i">>

say_hi(text) == Function(Def("say_hi", <<>>), Str(text))

\* def wrapper_accepting_arguments(arg1, arg2)
wrapper_accepting_arguments ==
    Def("wrapper_accepting_arguments", <<Param("arg1", "flex"), Param("arg2", "flex")>>)

\* def a_wrapper_accepting_arbitrary_arguments(*args, **kwargs)
a_wrapper_accepting_arbitrary_arguments ==
    [Def("a_wrapper_accepting_arbitrary_arguments", <<>>)
        EXCEPT !.varargs = TRUE, !.varkw = TRUE]

\* def wrapper(), of uppercase_decorator and of split_string
wrapper == Def("wrapper", <<>>)

\* The parameter list of the wrapper a decorator returns.
WrapperDef(decorator) ==
    CASE decorator = "decorator_with_argument" -> wrapper_accepting_arguments
      [] decorator = "a_decorator_passing_arbitrary_arguments" ->
            a_wrapper_accepting_arbitrary_arguments
      [] OTHER -> wrapper

\* decorator(function): the wrapper, with the function in its closure.
Decorate(decorator, function) ==
    [kind |-> "wrapper", of |-> decorator, function |-> function]

\* The decorators are applied in the order they are written, the top one first.
RECURSIVE StackTopDown(_, _)
StackTopDown(decorators, function) ==
    IF decorators = <<>> THEN function
    ELSE StackTopDown(Tail(decorators), Decorate(Head(decorators), function))

\* @d1 above @d2 above def f binds f to d1(d2(f)): the decorator next to the
\* def is applied first.
RECURSIVE Stack(_, _)
Stack(decorators, function) ==
    IF decorators = <<>> THEN function
    ELSE Decorate(Head(decorators), Stack(Tail(decorators), function))

\* The name under which a function object shows in the trace.
NameOf(f) == IF f.kind = "def" THEN f.def.name ELSE f.of

\* The events of a call: the call as the function receives it, its return.
CallEvent(f, pos, named) ==
    [ev |-> "call", fn |-> NameOf(f), pos |-> pos, named |-> named, val |-> NoneValue]

ReturnEvent(f, val) ==
    [ev |-> "return", fn |-> NameOf(f), pos |-> <<>>, named |-> <<>>, val |-> val]

Raised(err, events) == [status |-> "error", err |-> err, ret |-> NoneValue, trace |-> events]

Returned(f, val, events) ==
    [status |-> "ok", err |-> "none", ret |-> val,
     trace |-> Append(events, ReturnEvent(f, val))]

\* The arguments the wrapper calls its function with, b being the binding
\* of the wrapper's own call:
\*    function(arg1, arg1)       function_to_decorate(*args)       function()
Forwarded(decorator, b) ==
    CASE decorator = "decorator_with_argument" ->
            [pos |-> <<b.vals["arg1"], b.vals["arg1"]>>, named |-> <<>>]
      [] decorator = "a_decorator_passing_arbitrary_arguments" ->
            [pos |-> b.star, named |-> <<>>]
      [] OTHER -> [pos |-> <<>>, named |-> <<>>]

\* What the wrapper does with the value its function returned: r is the
\* finished inner call, events the trace up to there.
\*    return function().upper()    return function().split()    (no return)
Finished(f, r, events) ==
    CASE f.of = "uppercase_decorator" ->
            IF r.ret.type = "str" THEN Returned(f, Str(upper(r.ret.v)), events)
            ELSE Raised("AttributeError", events)
      [] f.of = "split_string" ->
            IF r.ret.type = "str" THEN Returned(f, List(split(r.ret.v)), events)
            ELSE Raised("AttributeError", events)
      [] OTHER -> Returned(f, NoneValue, events)

\* The function at the bottom of a stack of wrappers: the one the def made.
RECURSIVE Undecorated(_)
Undecorated(f) == IF f.kind = "def" THEN f ELSE Undecorated(f.function)

\* The call f(*pos, **named), run to its end: the outcome and the events.
\* A call that does not bind raises TypeError and runs no body.
RECURSIVE Invoke(_, _, _)
Invoke(f, pos, named) ==
    LET b == Bind(IF f.kind = "def" THEN f.def ELSE WrapperDef(f.of), pos, named)
        entered == <<CallEvent(f, pos, named)>>
    IN  IF b.status = "error" THEN Raised("TypeError", entered)
        ELSE IF f.kind = "def" THEN Returned(f, f.returns, entered)
        ELSE LET args == Forwarded(f.of, b)
                 r == Invoke(f.function, args.pos, args.named)
                 events == entered \o r.trace
             IN  IF r.status = "error" THEN Raised(r.err, events)
                 ELSE Finished(f, r, events)

\* The names of the cities, of the people.
Cities == {"Dhaka", "London"}

\* The texts say_hi may return.
Greetings == {hi_rabbi} \cup SeqsUpTo({"h", "I", " "}, MaxText)

\* The decorators above def say_hi, the top one first.
Stacks == SeqsUpTo({"split_string", "uppercase_decorator"}, 2)

\* The state after the decorated def has run.
InitDeco ==
    /\ prog \in {"cities", "arbitrary", "say_hi"}
    /\ func \in
          CASE prog = "cities" -> {Decorate("decorator_with_argument", cities)}
            [] prog = "arbitrary" ->
                  {Decorate("a_decorator_passing_arbitrary_arguments", f) :
                      f \in {function_with_no_arguments, function_with_arguments,
                             funciton_with_keyword_arguments}}
            [] prog = "say_hi" ->
                  {Stack(ds, say_hi(text)) : ds \in Stacks, text \in Greetings}
    /\ trace = <<>>
    /\ pipe = <<>>
    /\ plan = <<>>
    /\ log = <<>>
    /\ exh = {}
    /\ after = <<>>
    /\ lists = <<>>
    /\ numbers = [cls |-> "none", data |-> <<>>]
    /\ norm = <<>>
    /\ call = NoCall
    /\ result = [status |-> "none"]
    /\ heap = <<>>
    /\ rets = <<>>
    /\ ran = 0

\* The calls a script makes of its decorated name.
CallForms ==
    CASE prog = "cities" ->
            {[pos |-> pos, named |-> <<>>] : pos \in SeqsUpTo(Cities, 3)}
            \cup {[pos |-> <<c>>, named |-> <<[name |-> n, val |-> "London"]>>] :
                     c \in Cities, n \in {"arg2", "city2"}}
      [] prog = "arbitrary" ->
            {[pos |-> pos, named |-> named] :
                pos \in SeqsUpTo(1..3, MaxLen),
                named \in {<<>>,
                           <<[name |-> "first_name", val |-> "Derrick"]>>,
                           <<[name |-> "first_name", val |-> "Derrick"],
                             [name |-> "last_name", val |-> "Mwiti"]>>,
                           <<[name |-> "c", val |-> "Mwiti"]>>}}
      [] prog = "say_hi" -> {[pos |-> <<>>, named |-> <<>>]}

\* cities('Dhaka', 'London'), function_with_arguments(1, 2, 3), say_hi(), ...
CallDecorated ==
    /\ \E form \in CallForms :
          LET r == Invoke(func, form.pos, form.named)
          IN  /\ call' = [fn |-> Undecorated(func).def.name, pos |-> form.pos, named |-> form.named]
              /\ result' = [status |-> r.status, err |-> r.err, ret |-> r.ret]
              /\ trace' = r.trace
    /\ UNCHANGED <<func, heap, rets, ran>>
    /\ UNCHANGED lazyVars

NextDeco == CallDecorated

SpecDeco == InitDeco /\ [][NextDeco]_vars

---------------------------------------------------------------------------
(* Claims about decorators.                                                *)

\* The calls the decorated function itself has received in the last call.
Received ==
    SelectSeq(trace, LAMBDA e : e.ev = "call" /\ e.fn = Undecorated(func).def.name)

\* C23: the wrapper built by decorator_with_argument passes the arguments
\* it receives to the decorated function: for every call wrapper(arg1, arg2)
\* the decorated function is called exactly once, with (arg1, arg2).
C23_WrapperPassesBothArguments ==
    (prog = "cities" /\ call.fn # "none") =>
        LET b == Bind(wrapper_accepting_arguments, call.pos, call.named)
        IN  b.status = "ok" =>
               /\ Len(Received) = 1
               /\ Received[1].pos = <<b.vals["arg1"], b.vals["arg2"]>>
               /\ Received[1].named = <<>>

\* C24: for every function under the general-purpose decorator and every
\* call, the wrapper collects the positional and the keyword arguments of
\* the call and calls the decorated function exactly once with those same
\* positional and keyword arguments.
C24_WrapperPassesAllArguments ==
    (prog = "arbitrary" /\ call.fn # "none") =>
        /\ Len(Received) = 1
        /\ Received[1].pos = call.pos
        /\ Received[1].named = call.named

\* The returns of the last call, in the order they happened.
ReturnsMade == SelectSeq(trace, LAMBDA e : e.ev = "return")

CallsMade == SelectSeq(trace, LAMBDA e : e.ev = "call")

\* C25: stacked decorators are applied from the bottom up.  With
\* @split_string above @uppercase_decorator, a call runs the original
\* function first, then the uppercase step, then the split step, and
\* returns the list of the upper-cased words; with the two decorators
\* interchanged the call fails, because the upper step receives a list.
C25_BottomUp ==
    (prog = "say_hi" /\ call.fn # "none") =>
        LET text == Undecorated(func).returns.v
            original == say_hi(text)
            words == split(text)
        IN  /\ func = Stack(<<"split_string", "uppercase_decorator">>, original) =>
                  /\ func.of = "split_string"
                  /\ func.function.of = "uppercase_decorator"
                  /\ func.function.function = original
                  /\ result.status = "ok"
                  /\ result.ret = List([j \in 1..Len(words) |-> upper(words[j])])
                  /\ [j \in 1..3 |-> CallsMade[j].fn] =
                        <<"split_string", "uppercase_decorator", "say_hi">>
                  /\ Len(ReturnsMade) = 3
                  /\ ReturnsMade[1] = ReturnEvent(original, Str(text))
                  /\ ReturnsMade[2].fn = "uppercase_decorator"
                  /\ ReturnsMade[2].val = Str(upper(text))
                  /\ ReturnsMade[3].fn = "split_string"
                  /\ ReturnsMade[3].val = result.ret
            /\ func = Stack(<<"uppercase_decorator", "split_string">>, original) =>
                  /\ result.status = "error"
                  /\ result.err = "AttributeError"
                  /\ Len(ReturnsMade) = 2
                  /\ ReturnsMade[1] = ReturnEvent(original, Str(text))
                  /\ ReturnsMade[2].fn = "split_string"
                  /\ ReturnsMade[2].val = List(words)

\* print(say_hi()) under @split_string above @uppercase_decorator
C25_Witness ==
    /\ prog = "say_hi"
    /\ call.fn = "say_hi"
    /\ func = Stack(<<"split_string", "uppercase_decorator">>, say_hi(hi_rabbi))
    /\ result.status = "ok"
    /\ result.ret = List(<<<<"H", "I">>, <<"R", "A", "B", "B", "I">>>>)

===========================================================================
